---- MODULE Spec2Model ----
(***************************************************************************)
(* Model of the confirmation / approval subsystem of grounded-git-mcp:     *)
(* the file-backed confirmation store (core/confirmations.py) and the      *)
(* propose / execute protocol that drives it (tools/approval_flow.py,      *)
(* reached through server.py).                                             *)
(*                                                                         *)
(* A string is a sequence of one-character strings, so that joining and    *)
(* seeding are computed character by character as the code does.           *)
(***************************************************************************)
EXTENDS Integers, Sequences, FiniteSets, TLC

\* ------------------------------------------------------------------ bounds
\* Last value of the clock (seconds since the first call).
MaxTime == 2
\* Calls (propose, execute, or direct store calls) begun in one behaviour.
MaxCalls == 3
\* Process crashes in one behaviour.
MaxCrashes == 1
\* Longest argument vector given to command_hash on its own.
MaxArgs == 2

\* ------------------------------------------------------- program constants
\* The fixed proposal lifetime (expires_at = created_at + Lifetime), in clock
\* units of the model.
Lifetime == 1
\* max_uses given by propose, and the dataclass default.
DefaultMaxUses == 1
\* used of a new Confirmation (the dataclass default).
DefaultUsed == 0


None == "None"
NL == "\n"

Procs == {"p1", "p2"}
Main == "p1"

\* ------------------------------------------------------------------ inputs
R1 == <<"/", "a">>
R2 == <<"/", "b">>
Roots == {R1, R2}

\* ["a", "b"], ["a b"] and ["x"]
V1 == << <<"a">>, <<"b">> >>
V2 == << <<"a", " ", "b">> >>
V3 == << <<"x">> >>
ArgVecs == {V1, V2, V3}

\* The repository propose is called for; execute may name either root.
ProposeRoots == {R1}
\* What propose is asked to guard: nothing beyond the conflict check, or the
\* branch, the working tree and HEAD together.
GuardChoices ==
    { [expected_branch |-> None, require_clean |-> FALSE, bind |-> FALSE],
      [expected_branch |-> "main", require_clean |-> TRUE, bind |-> TRUE] }

Branches == {"main", "dev"}
Heads == {"h1", "h2"}
RepoStates == [branch : Branches, head : Heads, clean : BOOLEAN, conflicts : BOOLEAN]
InitRepo == [branch |-> "main", head |-> "h1", clean |-> TRUE, conflicts |-> FALSE]

\* -------------------------------------------------------- fingerprinting
RECURSIVE Join(_, _)
Join(sep, ss) ==
    IF ss = <<>> THEN <<>>
    ELSE IF Len(ss) = 1 THEN Head(ss)
    ELSE Head(ss) \o <<sep>> \o Join(sep, Tail(ss))

\* "\n".join(args)
stable_cmd_text(args) == Join(NL, args)

\* hashlib.sha256(s).hexdigest(): an opaque digest, taken as collision-free.
sha256_text(s) == <<"sha256", s>>

Digits == <<"0", "1", "2", "3", "4", "5", "6", "7", "8", "9">>
RECURSIVE Str(_)
Str(n) == IF n < 10 THEN <<Digits[n + 1]>>
          ELSE Str(n \div 10) \o <<Digits[(n % 10) + 1]>>

\* f"{root.resolve()}\n{_now()}\n{_stable_cmd_text(args)}", hashed, [:16]
new_confirmation_id(root, args, t) ==
    <<"id16", sha256_text(root \o <<NL>> \o Str(t) \o <<NL>> \o stable_cmd_text(args))>>

command_hash(args) == sha256_text(stable_cmd_text(args))

\* ------------------------------------------------------------ data model
Preconditions(eh, eb, rc, rnc) ==
    [cls |-> "Preconditions", expected_head |-> eh, expected_branch |-> eb,
     require_clean |-> rc, require_no_conflicts |-> rnc]

\* Preconditions(): every field at its default.
DefaultPreconditions == Preconditions(None, None, FALSE, TRUE)

Confirmation(id, root, args, cl, h, created, expires, maxu, u, pre) ==
    [cls |-> "Confirmation", confirmation_id |-> id, root |-> root, args |-> args,
     classification |-> cl, cmd_hash |-> h, created_at |-> created,
     expires_at |-> expires, max_uses |-> maxu, used |-> u, preconditions |-> pre]

is_expired_strict(c, t) == t >= c.expires_at
\* _now() > self.expires_at
is_expired(c, t) == t > c.expires_at

can_use_inclusive(c, t) == (~is_expired(c, t)) /\ c.used <= c.max_uses
\* (not self.is_expired()) and self.used < self.max_uses
can_use(c, t) == (~is_expired(c, t)) /\ c.used < c.max_uses

\* dataclasses.asdict(c): plain dicts, the nested Preconditions included.
asdict(c) ==
    [confirmation_id |-> c.confirmation_id, root |-> c.root, args |-> c.args,
     classification |-> c.classification, cmd_hash |-> c.cmd_hash,
     created_at |-> c.created_at, expires_at |-> c.expires_at,
     max_uses |-> c.max_uses, used |-> c.used,
     preconditions |->
        [expected_head |-> c.preconditions.expected_head,
         expected_branch |-> c.preconditions.expected_branch,
         require_clean |-> c.preconditions.require_clean,
         require_no_conflicts |-> c.preconditions.require_no_conflicts]]

from_raw_default_preconditions(raw) ==
    Confirmation(raw.confirmation_id, raw.root, raw.args, raw.classification,
                 raw.cmd_hash, raw.created_at, raw.expires_at, raw.max_uses, raw.used,
                 DefaultPreconditions)
from_raw_dict_preconditions(raw) ==
    Confirmation(raw.confirmation_id, raw.root, raw.args, raw.classification,
                 raw.cmd_hash, raw.created_at, raw.expires_at, raw.max_uses, raw.used,
                 raw.preconditions)
\* get: raw["preconditions"] = Preconditions(**raw["preconditions"]);
\*      Confirmation(**raw)
from_raw(raw) ==
    Confirmation(raw.confirmation_id, raw.root, raw.args, raw.classification,
                 raw.cmd_hash, raw.created_at, raw.expires_at, raw.max_uses, raw.used,
                 Preconditions(raw.preconditions.expected_head,
                               raw.preconditions.expected_branch,
                               raw.preconditions.require_clean,
                               raw.preconditions.require_no_conflicts))

\* ------------------------------------------------------------------ files
Absent == [st |-> "absent"]
Empty == [st |-> "empty"]
Truncated == [st |-> "truncated"]
Full(d) == [st |-> "full", data |-> d]
\* What an interrupted write_text leaves: nothing yet, or a prefix of the text.
PartialContents == {Empty, Truncated}

EmptyMap == << >>
SetKey_fresh(d, k, v) == [x \in {k} |-> v]
SetKey_setdefault(d, k, v) ==
    [x \in (DOMAIN d) \cup {k} |-> IF x \in DOMAIN d THEN d[x] ELSE v]
\* data[k] = v
SetKey(d, k, v) == [x \in (DOMAIN d) \cup {k} |-> IF x = k THEN v ELSE d[x]]

\* json.loads(read_text() or "{}") succeeds on a complete or a blank file.
Loadable(f) == f.st \in {"full", "empty"}
Load(f) == IF f.st = "full" THEN f.data ELSE EmptyMap

save_target_in_place == "db"
\* _save writes tmp = self._db.with_suffix(".json.tmp"), then replaces.
save_target == "tmp"

put_steps_audit_first == [load |-> "audit", audit |-> "save_open", save_replace |-> "idle"]
\* put: _load, _save, audit, in this order.
put_steps == [load |-> "save_open", save_replace |-> "audit", audit |-> "idle"]

\* mark_used: _load, _save, audit, in this order.
mark_used_steps == [load |-> "save_open", save_replace |-> "audit", audit |-> "idle"]
Steps(op) == IF op = "put" THEN put_steps ELSE mark_used_steps

mark_used_increment_none(raw) == raw
mark_used_increment_capped(raw) ==
    IF raw.used < raw.max_uses THEN [raw EXCEPT !.used = raw.used + 1] ELSE raw
\* raw["used"] = int(raw.get("used", 0)) + 1
mark_used_increment(raw) == [raw EXCEPT !.used = raw.used + 1]

audit_lines_none(action, id, extra, t) == << >>
\* the line audit() appends: {"ts", "action", "confirmation_id", **extra}
audit_lines(action, id, extra, t) ==
    << [ts |-> t, action |-> action, confirmation_id |-> id, extra |-> extra] >>

\* ------------------------------------------------ external collaborators
\* The classifier: refuses some commands, classifies the others.
PolicyRejects(args) == args = V3
Classify(args) == [risk |-> "write", reasons |-> Len(args)]

\* The guards the repository-state reader is asked about, in the order checked.
FailedGuard(pre, r) ==
    IF pre.expected_branch # None /\ pre.expected_branch # r.branch THEN "branch"
    ELSE IF pre.expected_head # None /\ pre.expected_head # r.head THEN "head"
    ELSE IF pre.require_clean /\ ~r.clean THEN "clean"
    ELSE IF pre.require_no_conflicts /\ r.conflicts THEN "conflicts"
    ELSE "none"
PreconditionsHold(pre, r) == FailedGuard(pre, r) = "none"

\* The exit statuses the command executor may report.
ExitCodes == {0, 1}

\* ------------------------------------------------------------------ state
VARIABLES
    now,        \* the clock _now() reads
    repo,       \* what the repository-state reader reports
    dbFile,     \* .grounded_git_mcp/confirmations.json
    tmpFile,    \* .grounded_git_mcp/confirmations.json.tmp
    auditFile,  \* .grounded_git_mcp/audit.jsonl, a sequence of lines
    pc,         \* where each process stands in its call
    loc,        \* each process's local variables (c, data, root, result)
    runs,       \* the invocations the command executor has received
    hist,       \* how each call ended, in order of return
    nPut,       \* put calls begun
    nMark,      \* mark_used calls begun
    nCalls,     \* calls begun at the API called by the environment
    nCrashes    \* crashes so far

vars == <<now, repo, dbFile, tmpFile, auditFile, pc, loc, runs, hist,
          nPut, nMark, nCalls, nCrashes>>

IdleLoc == [op |-> "none"]
NoId == <<"noid">>
UnknownId == <<"id16", <<"sha256", <<"?">>>>>>

Outcome(op, id, status, guard, code) ==
    [op |-> op, id |-> id, status |-> status, guard |-> guard, exit_code |-> code]

\* get returned the Confirmation rec.
GetOutcome(id, rec) ==
    [op |-> "get", id |-> id, status |-> "found", guard |-> "none", exit_code |-> -1,
     rec |-> rec]

\* put(rec) returned.
PutOutcome(rec) ==
    [op |-> "put", id |-> rec.confirmation_id, status |-> "done", guard |-> "none",
     exit_code |-> -1, rec |-> rec]

\* The map a reader of the durable file obtains now.
Db == Load(dbFile)
Stored(id) == id \in DOMAIN Db

\* FileConfirmationStore.__init__ has run: the map file holds "{}".
Init ==
    /\ now = 0
    /\ repo = InitRepo
    /\ dbFile = Full(EmptyMap)
    /\ tmpFile = Absent
    /\ auditFile = << >>
    /\ pc = [p \in Procs |-> "idle"]
    /\ loc = [p \in Procs |-> IdleLoc]
    /\ runs = << >>
    /\ hist = << >>
    /\ nPut = 0
    /\ nMark = 0
    /\ nCalls = 0
    /\ nCrashes = 0

\* What a call reports when it returns normally.
Returned(l) ==
    CASE l.via = "propose" -> Outcome("propose", l.c.confirmation_id, "proposed", "none", -1)
      [] l.via = "execute" -> Outcome("execute", l.c.confirmation_id, "executed", "none",
                                      l.result.exit_code)
      [] l.via = "store" /\ l.op = "put" -> PutOutcome(l.c)
      [] OTHER -> Outcome(l.op, l.c.confirmation_id, "done", "none", -1)

\* Control moves to stage `next`; on "idle" the call returns.
Goto(p, next) ==
    /\ pc' = [pc EXCEPT ![p] = next]
    /\ IF next = "idle"
       THEN /\ hist' = Append(hist, Returned(loc[p]))
            /\ loc' = [loc EXCEPT ![p] = IdleLoc]
       ELSE UNCHANGED <<hist, loc>>

Fail(p, op, id, status, guard) ==
    /\ pc' = [pc EXCEPT ![p] = "idle"]
    /\ loc' = [loc EXCEPT ![p] = IdleLoc]
    /\ hist' = Append(hist, Outcome(op, id, status, guard, -1))

\* ------------------------------------------------------------------ store
\* put(c), mark_used(c, result) and get(id) called on the store directly.
\* The records are as propose builds them, and the same after one use; those
\* for V2 guard the branch, the working tree and HEAD.
StoreRecords ==
    { Confirmation(new_confirmation_id(R1, a, 0), R1, a, Classify(a), command_hash(a),
                   0, Lifetime, DefaultMaxUses, u,
                   IF a = V2 THEN Preconditions("h1", "main", TRUE, TRUE)
                   ELSE DefaultPreconditions)
      : a \in {V1, V2}, u \in {DefaultUsed, DefaultMaxUses} }

StorePut(p, c) ==
    /\ pc[p] = "idle" /\ nCalls < MaxCalls
    /\ pc' = [pc EXCEPT ![p] = "load"]
    /\ loc' = [loc EXCEPT ![p] = [op |-> "put", via |-> "store", c |-> c]]
    /\ nPut' = nPut + 1
    /\ nCalls' = nCalls + 1
    /\ UNCHANGED <<now, repo, dbFile, tmpFile, auditFile, runs, hist, nMark, nCrashes>>

StoreMarkUsed(p, c, code) ==
    /\ pc[p] = "idle" /\ nCalls < MaxCalls
    /\ pc' = [pc EXCEPT ![p] = "load"]
    /\ loc' = [loc EXCEPT ![p] = [op |-> "mark_used", via |-> "store", c |-> c,
                                  result |-> [exit_code |-> code]]]
    /\ nMark' = nMark + 1
    /\ nCalls' = nCalls + 1
    /\ UNCHANGED <<now, repo, dbFile, tmpFile, auditFile, runs, hist, nPut, nCrashes>>

\* get(confirmation_id): one read of the map file.
StoreGet(p, id) ==
    /\ pc[p] = "idle" /\ nCalls < MaxCalls
    /\ nCalls' = nCalls + 1
    /\ hist' = Append(hist,
          IF ~Loadable(dbFile) THEN Outcome("get", id, "error", "none", -1)
          ELSE IF id \in DOMAIN Db
               THEN GetOutcome(id, from_raw(Db[id]))
               ELSE Outcome("get", id, "absent", "none", -1))
    /\ UNCHANGED <<now, repo, dbFile, tmpFile, auditFile, pc, loc, runs, nPut, nMark, nCrashes>>

\* put: data = self._load(); data[c.confirmation_id] = asdict(c)
PutLoad(p) ==
    /\ pc[p] = "load" /\ loc[p].op = "put"
    /\ IF ~Loadable(dbFile)
       THEN Fail(p, "put", loc[p].c.confirmation_id, "error", "none")
       ELSE /\ pc' = [pc EXCEPT ![p] = put_steps.load]
            /\ loc' = [loc EXCEPT ![p] =
                  [op |-> "put", via |-> loc[p].via, c |-> loc[p].c,
                   data |-> SetKey(Db, loc[p].c.confirmation_id, asdict(loc[p].c))]]
            /\ UNCHANGED hist
    /\ UNCHANGED <<now, repo, dbFile, tmpFile, auditFile, runs, nPut, nMark, nCalls, nCrashes>>

MarkUsedLoad_audit_absent(p) ==
    /\ pc[p] = "load" /\ loc[p].op = "mark_used"
    /\ LET id == loc[p].c.confirmation_id IN
       IF ~Loadable(dbFile)
       THEN Fail(p, "mark_used", id, "error", "none")
       ELSE IF id \notin DOMAIN Db
       THEN /\ pc' = [pc EXCEPT ![p] = "audit"]
            /\ UNCHANGED <<loc, hist>>
       ELSE /\ pc' = [pc EXCEPT ![p] = mark_used_steps.load]
            /\ loc' = [loc EXCEPT ![p] =
                  [op |-> "mark_used", via |-> loc[p].via, c |-> loc[p].c,
                   result |-> loc[p].result,
                   data |-> SetKey(Db, id, mark_used_increment(Db[id]))]]
            /\ UNCHANGED hist
    /\ UNCHANGED <<now, repo, dbFile, tmpFile, auditFile, runs, nPut, nMark, nCalls, nCrashes>>
\* mark_used: data = self._load(); raw = data.get(id); if not raw: return;
\* raw["used"] += 1; data[id] = raw
MarkUsedLoad(p) ==
    /\ pc[p] = "load" /\ loc[p].op = "mark_used"
    /\ LET id == loc[p].c.confirmation_id IN
       IF ~Loadable(dbFile)
       THEN Fail(p, "mark_used", id, "error", "none")
       ELSE IF id \notin DOMAIN Db
       THEN /\ pc' = [pc EXCEPT ![p] = "idle"]
            /\ loc' = [loc EXCEPT ![p] = IdleLoc]
            /\ hist' = Append(hist,
                  IF loc[p].via = "execute"
                  THEN Outcome("execute", id, "executed", "unmarked", loc[p].result.exit_code)
                  ELSE Outcome("mark_used", id, "absent", "none", -1))
       ELSE /\ pc' = [pc EXCEPT ![p] = mark_used_steps.load]
            /\ loc' = [loc EXCEPT ![p] =
                  [op |-> "mark_used", via |-> loc[p].via, c |-> loc[p].c,
                   result |-> loc[p].result,
                   data |-> SetKey(Db, id, mark_used_increment(Db[id]))]]
            /\ UNCHANGED hist
    /\ UNCHANGED <<now, repo, dbFile, tmpFile, auditFile, runs, nPut, nMark, nCalls, nCrashes>>

\* _save, first half of write_text: the target is opened and truncated, and
\* some prefix of the text is in it.
SaveOpen(p) ==
    /\ pc[p] = "save_open"
    /\ \E part \in PartialContents :
          IF save_target = "tmp"
          THEN tmpFile' = part /\ UNCHANGED dbFile
          ELSE dbFile' = part /\ UNCHANGED tmpFile
    /\ pc' = [pc EXCEPT ![p] = "save_write"]
    /\ UNCHANGED <<now, repo, auditFile, loc, runs, hist, nPut, nMark, nCalls, nCrashes>>

\* _save, second half of write_text: the whole text is in the target.
SaveWrite(p) ==
    /\ pc[p] = "save_write"
    /\ IF save_target = "tmp"
       THEN tmpFile' = Full(loc[p].data) /\ UNCHANGED dbFile
       ELSE dbFile' = Full(loc[p].data) /\ UNCHANGED tmpFile
    /\ pc' = [pc EXCEPT ![p] = "save_replace"]
    /\ UNCHANGED <<now, repo, auditFile, loc, runs, hist, nPut, nMark, nCalls, nCrashes>>

\* _save: tmp.replace(self._db); then the caller goes on.
SaveReplace(p) ==
    /\ pc[p] = "save_replace"
    /\ IF save_target = "tmp" /\ tmpFile = Absent
       THEN /\ Fail(p, loc[p].op, loc[p].c.confirmation_id, "error", "none")
            /\ UNCHANGED <<dbFile, tmpFile>>
       ELSE /\ IF save_target = "tmp"
               THEN dbFile' = tmpFile /\ tmpFile' = Absent
               ELSE UNCHANGED <<dbFile, tmpFile>>
            /\ Goto(p, Steps(loc[p].op).save_replace)
    /\ UNCHANGED <<now, repo, auditFile, runs, nPut, nMark, nCalls, nCrashes>>

\* audit("proposed", id, classification) / audit("executed", id, result)
Audit(p) ==
    /\ pc[p] = "audit"
    /\ auditFile' = auditFile \o
          (IF loc[p].op = "put"
           THEN audit_lines("proposed", loc[p].c.confirmation_id, loc[p].c.classification, now)
           ELSE audit_lines("executed", loc[p].c.confirmation_id, loc[p].result, now))
    /\ Goto(p, Steps(loc[p].op).audit)
    /\ UNCHANGED <<now, repo, dbFile, tmpFile, runs, nPut, nMark, nCalls, nCrashes>>

\* The process dies where it stands; the files stay as they are.
Crash(p) ==
    /\ pc[p] # "idle" /\ nCrashes < MaxCrashes
    /\ nCrashes' = nCrashes + 1
    /\ pc' = [pc EXCEPT ![p] = "idle"]
    /\ loc' = [loc EXCEPT ![p] = IdleLoc]
    /\ hist' = Append(hist, Outcome("crash", loc[p].c.confirmation_id, pc[p], loc[p].op, -1))
    /\ UNCHANGED <<now, repo, dbFile, tmpFile, auditFile, runs, nPut, nMark, nCalls>>

\* ----------------------------------------------------------- orchestrator
\* propose(root, args, expected_branch, require_clean): classify, build the
\* record (used = 0, max_uses = 1, expires_at = created_at + lifetime), put it.
\* bind: whether the policy binds the proposal to the HEAD read now.
ProposeBegin(p, root, args, eb, rc, bind) ==
    /\ pc[p] = "idle" /\ nCalls < MaxCalls
    /\ nCalls' = nCalls + 1
    /\ IF PolicyRejects(args)
       THEN /\ hist' = Append(hist, Outcome("propose", NoId, "policy_rejected", "none", -1))
            /\ UNCHANGED <<pc, loc, nPut>>
       ELSE /\ pc' = [pc EXCEPT ![p] = "load"]
            /\ loc' = [loc EXCEPT ![p] =
                  [op |-> "put", via |-> "propose",
                   c |-> Confirmation(new_confirmation_id(root, args, now), root, args,
                            Classify(args), command_hash(args), now, now + Lifetime,
                            DefaultMaxUses, DefaultUsed,
                            Preconditions(IF bind THEN repo.head ELSE None, eb, rc, TRUE))]]
            /\ nPut' = nPut + 1
            /\ UNCHANGED hist
    /\ UNCHANGED <<now, repo, dbFile, tmpFile, auditFile, runs, nMark, nCrashes>>

\* execute, step 1: record = Store.get(confirmation_id); absent: not found.
ExecuteBegin(p, root, id) ==
    /\ pc[p] = "idle" /\ nCalls < MaxCalls
    /\ nCalls' = nCalls + 1
    /\ IF ~Loadable(dbFile)
       THEN Fail(p, "execute", id, "error", "none")
       ELSE IF id \notin DOMAIN Db
       THEN Fail(p, "execute", id, "not_found", "none")
       ELSE /\ pc' = [pc EXCEPT ![p] = "exec_check"]
            /\ loc' = [loc EXCEPT ![p] =
                  [op |-> "execute", via |-> "execute", root |-> root, c |-> from_raw(Db[id])]]
            /\ UNCHANGED hist
    /\ UNCHANGED <<now, repo, dbFile, tmpFile, auditFile, runs, nPut, nMark, nCrashes>>

\* Which of the two conditions behind "expired or already used" hold.
UnusableReason(c, t) ==
    IF t > c.expires_at /\ c.used >= c.max_uses THEN "expired+exhausted"
    ELSE IF c.used >= c.max_uses THEN "exhausted"
    ELSE "expired"

\* Why execute refuses the record it read, or "run".
Verdict(c, root, t, r) ==
    IF ~can_use(c, t) THEN "expired_or_used"
    ELSE IF c.root # root THEN "scope_mismatch"
    ELSE IF ~PreconditionsHold(c.preconditions, r) THEN "precondition_violation"
    ELSE "run"

\* execute, steps 2 to 5: can_use, the root, the preconditions against the
\* repository as it is now; then the executor runs record.args, and mark_used
\* is entered with its result.
ExecuteCheckRun(p) ==
    /\ pc[p] = "exec_check"
    /\ LET c == loc[p].c
           v == Verdict(c, loc[p].root, now, repo)
       IN IF v # "run"
          THEN /\ Fail(p, "execute", c.confirmation_id, v,
                       IF v = "expired_or_used" THEN UnusableReason(c, now)
                       ELSE IF v = "precondition_violation"
                            THEN FailedGuard(c.preconditions, repo)
                       ELSE "none")
               /\ UNCHANGED <<runs, nMark>>
          ELSE \E code \in ExitCodes :
               /\ runs' = Append(runs, [confirmation_id |-> c.confirmation_id,
                                        root |-> loc[p].root, args |-> c.args,
                                        exit_code |-> code, by |-> p])
               /\ pc' = [pc EXCEPT ![p] = "load"]
               /\ loc' = [loc EXCEPT ![p] =
                     [op |-> "mark_used", via |-> "execute", c |-> c,
                      result |-> [exit_code |-> code]]]
               /\ nMark' = nMark + 1
               /\ UNCHANGED hist
    /\ UNCHANGED <<now, repo, dbFile, tmpFile, auditFile, nPut, nCalls, nCrashes>>

\* ------------------------------------------------------------ environment
Tick ==
    /\ now < MaxTime
    /\ now' = now + 1
    /\ UNCHANGED <<repo, dbFile, tmpFile, auditFile, pc, loc, runs, hist,
                   nPut, nMark, nCalls, nCrashes>>

\* A checkout, a commit, an edit or a merge made outside this subsystem:
\* one thing the reader reports changes.
RepoChange(r) ==
    /\ Cardinality({f \in DOMAIN repo : r[f] # repo[f]}) = 1
    /\ repo' = r
    /\ UNCHANGED <<now, dbFile, tmpFile, auditFile, pc, loc, runs, hist,
                   nPut, nMark, nCalls, nCrashes>>

\* --------------------------------------------------------- specifications
\* The ids a caller of execute may hold: those in the map, and one never issued.
CallerIds == (DOMAIN Db) \cup {UnknownId}

StoreStep(p) ==
    \/ PutLoad(p)
    \/ MarkUsedLoad(p)
    \/ SaveOpen(p)
    \/ SaveWrite(p)
    \/ SaveReplace(p)
    \/ Audit(p)

OrchestratorStep(p) ==
    \/ \E root \in ProposeRoots, args \in ArgVecs, g \in GuardChoices :
          ProposeBegin(p, root, args, g.expected_branch, g.require_clean, g.bind)
    \/ \E root \in Roots, id \in CallerIds : ExecuteBegin(p, root, id)
    \/ ExecuteCheckRun(p)

DirectStoreCall(p) ==
    \/ \E c \in StoreRecords : StorePut(p, c)
    \/ \E c \in StoreRecords, code \in ExitCodes : StoreMarkUsed(p, c, code)
    \/ \E id \in {c.confirmation_id : c \in StoreRecords} : StoreGet(p, id)

AllIdle == \A p \in Procs : pc[p] = "idle"

\* One caller, one call at a time, each call running to its return, while
\* the clock and the repository move between calls.
Next ==
    \/ OrchestratorStep(Main)
    \/ StoreStep(Main)
    \/ AllIdle /\ Tick
    \/ AllIdle /\ \E r \in RepoStates : RepoChange(r)
Spec == Init /\ [][Next]_vars

\* The store's own interface, called directly, one call at a time, the clock
\* moving between calls.
NextStore ==
    \/ DirectStoreCall(Main)
    \/ StoreStep(Main)
    \/ AllIdle /\ Tick
SpecStore == Init /\ [][NextStore]_vars

\* The same, with the process allowed to die between any two steps.
NextCrash ==
    \/ DirectStoreCall(Main)
    \/ StoreStep(Main)
    \/ Crash(Main)
SpecCrash == Init /\ [][NextCrash]_vars

\* Two callers whose propose and execute calls interleave step by step.
NextConc ==
    \E p \in Procs :
        \/ OrchestratorStep(p)
        \/ StoreStep(p)
SpecConc == Init /\ [][NextConc]_vars

\* One caller in a repository that stays as it is, with the scheduling the
\* code has: a call, once begun, runs on to its return (it is one synchronous
\* sequence), and the clock time.time() reads keeps advancing (here, up to
\* MaxTime).
NextLive ==
    \/ OrchestratorStep(Main)
    \/ StoreStep(Main)
    \/ AllIdle /\ Tick
SpecLive ==
    /\ Init /\ [][NextLive]_vars
    /\ WF_vars(StoreStep(Main) \/ ExecuteCheckRun(Main))
    /\ WF_vars(AllIdle /\ Tick)

\* Two callers of the store's own interface, their calls interleaving step by
\* step on the one map file, temporary file and audit log.
NextStoreConc ==
    \E p \in Procs :
        \/ DirectStoreCall(p)
        \/ StoreStep(p)
SpecStoreConc == Init /\ [][NextStoreConc]_vars

\* ---------------------------------------------------- fingerprint alone
\* Arguments as git receives them: empty, plain, with a space, a quote, a
\* shell metacharacter, a line break (a commit message of two lines).
FingerprintArgs ==
    { << >>, <<"a">>, <<"b">>, <<"a", " ", "b">>, <<"a", NL, "b">>, <<"'">>, <<";">> }
FingerprintVecs == UNION { [1 .. k -> FingerprintArgs] : k \in 0 .. MaxArgs }

\* command_hash(args), called on its own; hist keeps the argument vector, its
\* stable text and the digest returned.
CommandHashCall(p, args) ==
    /\ pc[p] = "idle" /\ nCalls < MaxCalls
    /\ nCalls' = nCalls + 1
    /\ hist' = Append(hist, [op |-> "command_hash", args |-> args,
                             text |-> stable_cmd_text(args),
                             hash |-> command_hash(args)])
    /\ UNCHANGED <<now, repo, dbFile, tmpFile, auditFile, pc, loc, runs,
                   nPut, nMark, nCrashes>>

NextFingerprint == \E args \in FingerprintVecs : CommandHashCall(Main, args)
SpecFingerprint == Init /\ [][NextFingerprint]_vars

\* ------------------------------------------------------ reading the state
Last(q) == q[Len(q)]
Executed(h) == h.op = "execute" /\ h.status = "executed"
Proposed(h) == h.op = "propose" /\ h.status = "proposed"
RejectedAsExpired(h) ==
    h.op = "execute" /\ h.status = "expired_or_used"
        /\ h.guard \in {"expired", "expired+exhausted"}
RejectedAsExhausted(h) ==
    h.op = "execute" /\ h.status = "expired_or_used"
        /\ h.guard \in {"exhausted", "expired+exhausted"}
\* The step invokes the command executor.
ExecutorInvoked == Len(runs') = Len(runs) + 1
\* The token was issued again (a put under the same id) between two returns.
ReissuedBetween(i, j, id) ==
    \E k \in (i + 1) .. (j - 1) : Proposed(hist[k]) /\ hist[k].id = id
RunsOf(id) == Cardinality({i \in DOMAIN runs : runs[i].confirmation_id = id})
ExecutedOf(id) == Cardinality({i \in DOMAIN hist : Executed(hist[i]) /\ hist[i].id = id})
\* Calls past the executor whose execute has not returned yet.
InFlight(id) ==
    Cardinality({p \in Procs : pc[p] # "idle" /\ loc[p].op = "mark_used"
                                /\ loc[p].via = "execute"
                                /\ loc[p].c.confirmation_id = id})

\* ------------------------------------------------------------------ claims

\* C1: for a confirmation with max_uses = 1, in a sequential series of execute
\* calls on the same id the executor is invoked at most once: once an execute
\* has reached the executor (exit status 0 or not), the stored used is 1,
\* can_use() is false, and every later execute on that token is rejected as
\* exhausted; every executor invocation is one execute that reached mark_used.
C1_SingleUse ==
    /\ [](/\ \A i, j \in DOMAIN hist :
               (i < j /\ Executed(hist[i]) /\ hist[j].op = "execute"
                  /\ hist[j].id = hist[i].id /\ ~ReissuedBetween(i, j, hist[i].id))
               => RejectedAsExhausted(hist[j])
          /\ \A id \in DOMAIN Db : RunsOf(id) = ExecutedOf(id) + InFlight(id))
    /\ [][(Len(hist') = Len(hist) + 1 /\ Executed(Last(hist')))
             => LET id == Last(hist').id IN
                /\ id \in DOMAIN Db'
                /\ Db'[id].max_uses = 1
                /\ Db'[id].used = 1
                /\ ~(now' <= Db'[id].expires_at /\ Db'[id].used < Db'[id].max_uses)]_vars

\* C1 witness: an execute whose command failed consumed the token, and a
\* later execute on the same id was rejected as exhausted.
C1_Witness ==
    \E i, j \in DOMAIN hist :
        /\ i < j /\ Executed(hist[i]) /\ hist[i].exit_code = 1
        /\ hist[j].id = hist[i].id /\ RejectedAsExhausted(hist[j])
        /\ RunsOf(hist[i].id) = 1

\* C2: the executor is invoked only from execute's check, in a state where the
\* record is in the store, is unexpired with used < max_uses, has the root
\* execute was given, and has every precondition satisfied by the repository
\* as it is at that moment; the argument vector passed is the stored args.
\* No step of propose (or of put, mark_used, audit) invokes the executor.
C2_ExecutorOnlyWhenEligible ==
    [][ExecutorInvoked =>
          /\ pc[Main] = "exec_check"
          /\ runs' = Append(runs, Last(runs'))
          /\ LET r == Last(runs') IN
             /\ Stored(r.confirmation_id)
             /\ now <= Db[r.confirmation_id].expires_at
             /\ Db[r.confirmation_id].used < Db[r.confirmation_id].max_uses
             /\ Db[r.confirmation_id].root = r.root
             /\ PreconditionsHold(Db[r.confirmation_id].preconditions, repo)
             /\ r.args = Db[r.confirmation_id].args]_vars

\* C2 witness: the executor ran a record that guards branch, tree and HEAD.
C2_Witness ==
    \E i \in DOMAIN runs :
        /\ Stored(runs[i].confirmation_id)
        /\ Db[runs[i].confirmation_id].preconditions.expected_branch = "main"
        /\ Db[runs[i].confirmation_id].preconditions.require_clean
        /\ runs[i].args = V2

\* C3: an execute whose record is past expires_at (now > expires_at) is
\* rejected as expired whatever used is, and does not invoke the executor; at
\* now = expires_at the record is not expired: the call is not rejected as
\* expired, and runs the command when nothing else stands against it.
C3_ExpiredRejected ==
    [][(pc[Main] = "exec_check" /\ pc'[Main] # "exec_check") =>
          LET c == Db[loc[Main].c.confirmation_id] IN
          /\ now > c.expires_at
                => /\ ~ExecutorInvoked /\ runs' = runs
                   /\ Len(hist') = Len(hist) + 1
                   /\ RejectedAsExpired(Last(hist'))
          /\ now = c.expires_at
                => /\ ~(Len(hist') = Len(hist) + 1 /\ RejectedAsExpired(Last(hist')))
                   /\ (c.used < c.max_uses /\ c.root = loc[Main].root
                         /\ PreconditionsHold(c.preconditions, repo))
                      => ExecutorInvoked]_vars

\* C3 witness: a record never used (used = 0) was rejected as expired.
C3_Witness ==
    /\ hist # << >> /\ RejectedAsExpired(Last(hist))
    /\ Stored(Last(hist).id) /\ Db[Last(hist).id].used = 0
    /\ now > Db[Last(hist).id].expires_at
    /\ runs = << >>

\* C4: when an enforced precondition of the stored record (expected_branch,
\* expected_head, require_clean, require_no_conflicts) fails against the
\* repository at execute time, execute ends as precondition violation naming
\* a guard, the executor is not invoked and the map file is untouched (used
\* unchanged); the same id runs on a later execute made before expiry once
\* the preconditions hold.
C4_PreconditionViolation ==
    [][(pc[Main] = "exec_check" /\ pc'[Main] # "exec_check") =>
          LET c == Db[loc[Main].c.confirmation_id]
              usable == now <= c.expires_at /\ c.used < c.max_uses
                            /\ c.root = loc[Main].root
          IN
          /\ (usable /\ ~PreconditionsHold(c.preconditions, repo))
                => /\ ~ExecutorInvoked /\ runs' = runs
                   /\ dbFile' = dbFile /\ tmpFile' = tmpFile /\ auditFile' = auditFile
                   /\ Len(hist') = Len(hist) + 1
                   /\ Last(hist').status = "precondition_violation"
                   /\ Last(hist').id = c.confirmation_id
                   /\ Last(hist').guard \in {"branch", "head", "clean", "conflicts"}
          /\ (usable /\ PreconditionsHold(c.preconditions, repo))
                => ExecutorInvoked /\ Last(runs').confirmation_id = c.confirmation_id]_vars

\* C4 witness: an id refused for its clean-tree guard was executed by a later
\* call, its used still 0 in between.
C4_Witness ==
    \E i, j \in DOMAIN hist :
        /\ i < j
        /\ hist[i].status = "precondition_violation" /\ hist[i].guard = "clean"
        /\ Executed(hist[j]) /\ hist[j].id = hist[i].id
        /\ RunsOf(hist[i].id) = 1

AbsentMarks ==
    Cardinality({i \in DOMAIN hist : hist[i].op = "mark_used" /\ hist[i].status = "absent"})
AuditLinesOf(action) ==
    Cardinality({i \in DOMAIN auditFile : auditFile[i].action = action})
HasProposedLine(id) ==
    \E i \in DOMAIN auditFile :
        auditFile[i].action = "proposed" /\ auditFile[i].confirmation_id = id

\* C5 as stated: every put call and every mark_used call appends exactly one
\* audit line, so after N put calls and M mark_used calls (and any number of
\* get calls) the audit log has exactly N + M lines.
C5_Original == AllIdle => Len(auditFile) = nPut + nMark

\* C5 as amended: every put call appends exactly one "proposed" line and every
\* mark_used call that finds its id in the map appends exactly one "executed"
\* line; a mark_used call on an id not in the map appends none. After N put
\* calls and M mark_used calls, A of them on absent ids, the log has N + M - A
\* lines.
C5_AuditCount ==
    AllIdle => /\ AuditLinesOf("proposed") = nPut
               /\ AuditLinesOf("executed") = nMark - AbsentMarks
               /\ Len(auditFile) = nPut + nMark - AbsentMarks

\* C5 witness: a put, a mark_used that found its record and a mark_used that
\* did not have all returned.
C5_Witness ==
    /\ AllIdle /\ nPut = 1 /\ nMark = 2 /\ AbsentMarks = 1
    /\ Len(auditFile) = 2

\* C6: the used counter stored under a confirmation_id never decreases, over
\* any sequence of propose, get and execute calls, a later propose that
\* produces the same confirmation_id included.
C6_UsedNeverDecreases ==
    [][\A id \in DOMAIN Db :
          id \in DOMAIN Db' => Db'[id].used >= Db[id].used]_vars

\* C7: Consumed and Expired are terminal: once the record stored under an id
\* is not usable (used >= max_uses, or now > expires_at), no propose, get or
\* execute makes the record stored under that id usable again.
C7_TerminalStates ==
    [][\A id \in DOMAIN Db :
          (~(now <= Db[id].expires_at /\ Db[id].used < Db[id].max_uses)
             /\ id \in DOMAIN Db')
          => ~(now' <= Db'[id].expires_at /\ Db'[id].used < Db'[id].max_uses)]_vars

\* C8: with no lock around get, can_use, the executor call and mark_used, every
\* executor invocation still passed can_use() on the record its own call had
\* read, so two overlapping execute calls on one single-use id can both pass
\* before either mark_used has run, and the executor is invoked twice.
C8_CheckThenAct ==
    [][ExecutorInvoked =>
          \E p \in Procs :
             /\ pc[p] = "exec_check" /\ pc'[p] = "load"
             /\ Last(runs').by = p
             /\ Last(runs').confirmation_id = loc[p].c.confirmation_id
             /\ now <= loc[p].c.expires_at
             /\ loc[p].c.used < loc[p].c.max_uses]_vars

\* C8 witness: one proposal with max_uses = 1, the executor invoked twice for
\* it, and neither call's mark_used has read the map yet (stored used is 0).
C8_Witness ==
    \E id \in DOMAIN Db :
        /\ nPut = 1 /\ Db[id].max_uses = 1 /\ Db[id].used = 0
        /\ RunsOf(id) = 2
        /\ \A p \in Procs : pc[p] = "load" /\ loc[p].op = "mark_used"
                              /\ loc[p].c.confirmation_id = id

\* C9: in every state, crashes between the steps of put included, each
\* confirmation_id with a "proposed" audit line has a record in the map file;
\* a record without a "proposed" line exists only while its put is about to
\* audit, or after a crash.
C9_ProposedHasRecord ==
    /\ \A i \in DOMAIN auditFile :
          auditFile[i].action = "proposed" => Stored(auditFile[i].confirmation_id)
    /\ \A id \in DOMAIN Db :
          ~HasProposedLine(id)
          => \/ nCrashes > 0
             \/ \E p \in Procs : pc[p] = "audit" /\ loc[p].op = "put"
                                  /\ loc[p].c.confirmation_id = id

\* C9 witness: the process died between put's save and its audit, leaving a
\* record with no "proposed" line.
C9_Witness ==
    /\ AllIdle /\ nCrashes = 1
    /\ \E i \in DOMAIN hist : hist[i].op = "crash" /\ hist[i].status = "audit"
                                /\ hist[i].guard = "put"
                                /\ Stored(hist[i].id) /\ ~HasProposedLine(hist[i].id)

\* C10: each step of a write of the map (the temporary file written, then the
\* replace), and a crash at any point of it, leaves the map file complete:
\* unchanged, or holding exactly the content being saved, which only the
\* replace step brings about; a crash changes nothing in it.
C10_AtomicSave ==
    [][/\ dbFile'.st = "full"
       /\ \/ dbFile' = dbFile
          \/ \E p \in Procs : pc[p] = "save_replace" /\ pc'[p] # "save_replace"
                               /\ dbFile' = Full(loc[p].data)
       /\ nCrashes' > nCrashes => dbFile' = dbFile]_vars

\* C10 witness: the process died while the temporary file was half written;
\* the map file holds the complete earlier content.
C10_Witness ==
    /\ AllIdle /\ nCrashes = 1
    /\ Last(hist).op = "crash" /\ Last(hist).status = "save_write"
    /\ tmpFile = Truncated
    /\ dbFile.st = "full" /\ DOMAIN dbFile.data # {}
    /\ Last(hist).guard = "mark_used" /\ dbFile.data[Last(hist).id].used = 0

\* The ways execute refuses before it reads the repository.
EarlyRejections == {"not_found", "expired_or_used", "scope_mismatch"}
\* The step returns a call, appending its outcome to hist.
Returns == Len(hist') = Len(hist) + 1
\* The step is execute's first one (Store.get) for some id.
ExecuteGetStep ==
    pc[Main] = "idle" /\ nCalls' = nCalls + 1
        /\ \/ pc'[Main] = "exec_check"
           \/ Returns /\ Last(hist').op = "execute"

\* C11: an execute on an id that is not in the map ends as not found; one whose
\* record fails can_use() (now > expires_at or used >= max_uses) ends as
\* expired-or-used; one whose record is usable but has another root ends as
\* scope mismatch. No step of such a call, its get included, invokes the
\* executor or changes the map file, the temporary file or the audit log.
C11_RejectionsChangeNothing ==
    [][/\ ExecuteGetStep
          => /\ dbFile' = dbFile /\ tmpFile' = tmpFile /\ runs' = runs
             /\ (\E id \in DOMAIN Db : pc'[Main] = "exec_check"
                                         /\ loc'[Main].c.confirmation_id = id)
                \/ (Last(hist').status = "not_found" /\ Last(hist').id \notin DOMAIN Db)
       /\ (pc[Main] = "exec_check" /\ pc'[Main] # "exec_check")
          => LET c == Db[loc[Main].c.confirmation_id]
                 usable == now <= c.expires_at /\ c.used < c.max_uses
                 rejected == IF ~usable THEN "expired_or_used"
                             ELSE IF c.root # loc[Main].root THEN "scope_mismatch"
                             ELSE "none"
             IN rejected # "none"
                => /\ Returns /\ Last(hist').status = rejected
                   /\ Last(hist').id = c.confirmation_id
                   /\ ~ExecutorInvoked /\ runs' = runs
                   /\ dbFile' = dbFile /\ tmpFile' = tmpFile /\ auditFile' = auditFile
                   /\ nMark' = nMark
       /\ (Returns /\ Last(hist').op = "execute"
              /\ Last(hist').status \in EarlyRejections)
          => runs' = runs /\ dbFile' = dbFile]_vars

\* C11 witness: one proposal was refused once for its root and once, later,
\* as expired; its record still has used = 0 and the executor never ran.
C11_Witness ==
    /\ AllIdle /\ runs = << >>
    /\ \E i, j \in DOMAIN hist :
          /\ hist[i].op = "execute" /\ hist[i].status = "scope_mismatch"
          /\ hist[j].op = "execute" /\ hist[j].status = "expired_or_used"
          /\ hist[j].id = hist[i].id
          /\ Stored(hist[i].id) /\ Db[hist[i].id].used = 0

\* The outcomes of propose and execute that are rejections.
Rejections ==
    {"policy_rejected", "not_found", "expired_or_used", "scope_mismatch",
     "precondition_violation"}
Attempts == {i \in DOMAIN hist : hist[i].op \in {"propose", "execute"}}
AuditedAttempts == {i \in Attempts : Proposed(hist[i]) \/ Executed(hist[i])}

GetRightAfterPut ==
    /\ hist # << >> /\ Last(hist).op = "put" /\ Last(hist).status = "done"
    /\ Returns /\ Last(hist').op = "get" /\ Last(hist').id = Last(hist).id
\* The record has the form propose gives it.
BuiltByPropose(c) ==
    c.used = 0 /\ c.max_uses = 1 /\ c.cmd_hash = <<"sha256", Join(NL, c.args)>>

\* C13: get(id) called right after put(c) has returned, for a record c as
\* propose builds it (cmd_hash the fingerprint of its args, used = 0), returns
\* a record and not absent; its cmd_hash is the fingerprint of its args and its
\* used is 0, also when the map already held a consumed record under that id.
C13_GetAfterPut ==
    [][(GetRightAfterPut /\ BuiltByPropose(Last(hist).rec)) =>
          LET g == Last(hist') IN
          /\ g.status = "found"
          /\ g.rec.confirmation_id = Last(hist).id
          /\ g.rec.args = Last(hist).rec.args
          /\ g.rec.cmd_hash = <<"sha256", Join(NL, g.rec.args)>>
          /\ g.rec.used = 0]_vars

\* C13 witness: get returned the new record (used = 0) after a put that
\* replaced a record stored with used = 1 under the same id.
C13_Witness ==
    /\ Len(hist) = 3
    /\ hist[1].op = "put" /\ hist[1].rec.used = 1
    /\ hist[2].op = "put" /\ hist[2].id = hist[1].id /\ BuiltByPropose(hist[2].rec)
    /\ hist[3].op = "get" /\ hist[3].id = hist[1].id /\ hist[3].status = "found"
    /\ hist[3].rec.used = 0

\* C14: get(c.confirmation_id) called right after put(c) has returned gives a
\* Confirmation equal to c in every field (confirmation_id, root, args,
\* classification, cmd_hash, created_at, expires_at, max_uses, used), its
\* preconditions being a Preconditions value equal to c.preconditions.
C14_RoundTrip ==
    [][GetRightAfterPut =>
          LET g == Last(hist')
              c == Last(hist).rec
          IN /\ g.status = "found"
             /\ g.rec.cls = "Confirmation"
             /\ g.rec.preconditions =
                   Preconditions(c.preconditions.expected_head,
                                 c.preconditions.expected_branch,
                                 c.preconditions.require_clean,
                                 c.preconditions.require_no_conflicts)
             /\ g.rec = c]_vars

\* C14 witness: get gave back a used record with guards on branch, tree and
\* HEAD, as put had been given it.
C14_Witness ==
    /\ Len(hist) >= 2
    /\ Last(hist).op = "get" /\ Last(hist).status = "found"
    /\ hist[Len(hist) - 1].op = "put"
    /\ hist[Len(hist) - 1].rec = Last(hist).rec
    /\ Last(hist).rec.used = 1
    /\ Last(hist).rec.preconditions = Preconditions("h1", "main", TRUE, TRUE)

\* C15: any two different argument vectors have different stable texts and,
\* the digest being collision-free, different fingerprints, whatever the
\* arguments contain (spaces, quotes, shell metacharacters, line breaks).
C15_FingerprintInjective ==
    \A i, j \in DOMAIN hist :
        (hist[i].op = "command_hash" /\ hist[j].op = "command_hash"
            /\ hist[i].args # hist[j].args)
        => hist[i].text # hist[j].text /\ hist[i].hash # hist[j].hash

\* The step is the replace that ends the save of a mark_used.
MarkUsedSaved ==
    pc[Main] = "save_replace" /\ loc[Main].op = "mark_used"
        /\ pc'[Main] # "save_replace"

\* C16: mark_used on a record that is in the map makes no eligibility check:
\* whatever the clock and the stored used are, the call goes on to save, and
\* its save raises the stored used of that id by exactly 1 (beyond max_uses
\* when it was already there), every other field of the record and every other
\* record staying as they were; no other step of the call changes the map.
C16_MarkUsedIncrements ==
    [][/\ (pc[Main] = "load" /\ loc[Main].op = "mark_used"
             /\ loc[Main].c.confirmation_id \in DOMAIN Db)
          => pc'[Main] = "save_open" /\ dbFile' = dbFile
       /\ MarkUsedSaved
          => LET id == loc[Main].c.confirmation_id IN
             /\ DOMAIN Db' = DOMAIN Db
             /\ Db'[id].used = Db[id].used + 1
             /\ Db'[id] = [Db[id] EXCEPT !.used = Db[id].used + 1]
             /\ \A k \in DOMAIN Db : k # id => Db'[k] = Db[k]
       /\ (pc[Main] # "idle" /\ loc[Main].op = "mark_used" /\ ~MarkUsedSaved)
          => dbFile' = dbFile]_vars

\* C16 witness: mark_used has returned for a record that was expired and
\* already used once; its used is 2, above max_uses = 1, and the other record
\* of the map is as it was put.
C16_Witness ==
    /\ AllIdle /\ Len(hist) = 3
    /\ hist[1].op = "put" /\ hist[2].op = "put" /\ hist[2].rec.used = 1
    /\ hist[1].id # hist[2].id
    /\ hist[3].op = "mark_used" /\ hist[3].status = "done" /\ hist[3].id = hist[2].id
    /\ Db[hist[2].id] = [asdict(hist[2].rec) EXCEPT !.used = 2]
    /\ Db[hist[2].id].max_uses = 1 /\ now > Db[hist[2].id].expires_at
    /\ Db[hist[1].id] = asdict(hist[1].rec)

\* C17: no step of put, get or mark_used, and no crash between their steps,
\* removes a key from the map file: every confirmation_id that is a key of the
\* map stays a key in the next state, hence in every later one.
C17_NeverDeleted ==
    [][/\ Loadable(dbFile')
       /\ \A id \in DOMAIN Db : id \in DOMAIN Db']_vars

\* C17 witness: with two records in the map, the process died while saving
\* a third write; both keys are still there.
C17_Witness ==
    /\ AllIdle /\ nCrashes = 1 /\ Len(hist) = 3
    /\ hist[1].op = "put" /\ hist[2].op = "put" /\ hist[1].id # hist[2].id
    /\ hist[3].op = "crash" /\ hist[3].status \in {"save_write", "save_replace"}
    /\ tmpFile # Absent
    /\ DOMAIN Db = {hist[1].id, hist[2].id}

\* Every record in the map whose expiry the clock can pass has expired.
AllRetired ==
    \A id \in DOMAIN Db :
        Db[id].expires_at < MaxTime
        => /\ now > Db[id].expires_at
           /\ is_expired(from_raw(Db[id]), now)
           /\ ~can_use(from_raw(Db[id]), now)

\* C18: with the clock advancing and no cancellation operation, every stored
\* confirmation (those never executed included) whose expiry the clock can
\* pass reaches a state where is_expired() is true and can_use() is false
\* (from every state, a state is reached where this is so of every record
\* then in the map, and records are never removed); and
\* a record that can be used stops being usable only by the clock passing its
\* expires_at or by its used being raised.
C18_EventuallyExpired ==
    /\ []<>AllRetired
    /\ [][\A id \in DOMAIN Db :
            (can_use(from_raw(Db[id]), now) /\ id \in DOMAIN Db'
                /\ ~can_use(from_raw(Db'[id]), now'))
            => now' > Db[id].expires_at \/ Db'[id].used > Db[id].used]_vars

\* C18 witness: a proposal nobody executed (used = 0, the executor never
\* invoked, no call but the propose) has expired.
C18_Witness ==
    /\ AllIdle /\ Len(hist) = 1 /\ Proposed(hist[1]) /\ runs = << >>
    /\ Stored(hist[1].id) /\ Db[hist[1].id].used = 0
    /\ is_expired(from_raw(Db[hist[1].id]), now)
    /\ ~can_use(from_raw(Db[hist[1].id]), now)

\* The calls of op on id that have ended, however they ended.
CallsOf(op, id) == {i \in DOMAIN hist : hist[i].op = op /\ hist[i].id = id}
MarksDone(id) == {i \in CallsOf("mark_used", id) : hist[i].status = "done"}

\* C19: when store operations on different ids (put and put, put and
\* mark_used) interleave at their load and save steps, then once all have
\* returned the map file is readable and holds the effect of each completed
\* one: an id with one put call, completed, and at most one mark_used call is
\* a key of the map, and its used is at least the used it was put with + the
\* number of completed mark_used calls on it.
C19_NoLostWrite ==
    AllIdle =>
       /\ Loadable(dbFile)
       /\ \A i \in DOMAIN hist :
             (/\ hist[i].op = "put" /\ hist[i].status = "done"
              /\ Cardinality(CallsOf("put", hist[i].id)) = 1
              /\ Cardinality(CallsOf("mark_used", hist[i].id)) <= 1)
             => /\ Stored(hist[i].id)
                /\ Db[hist[i].id].used
                      >= hist[i].rec.used + Cardinality(MarksDone(hist[i].id))

ExecutedLinesOf(id) ==
    Cardinality({i \in DOMAIN auditFile : auditFile[i].action = "executed"
                                            /\ auditFile[i].confirmation_id = id})

\* C20: whenever every propose and execute begun so far has returned, the
\* used stored under each confirmation_id of the map equals the number of
\* "executed" audit lines that carry that confirmation_id.
C20_LedgerMatchesAudit ==
    AllIdle => \A id \in DOMAIN Db : Db[id].used = ExecutedLinesOf(id)

\* C21: mark_used given a record whose confirmation_id is not a key of the
\* map returns at once and without error: the step that loads the map ends
\* the call, and the map file, the temporary file and the audit log are as
\* they were before the call.
C21_MarkUsedAbsent ==
    [][(pc[Main] = "load" /\ loc[Main].op = "mark_used" /\ Loadable(dbFile)
          /\ loc[Main].c.confirmation_id \notin DOMAIN Db)
       => /\ pc'[Main] = "idle"
          /\ Returns
          /\ Last(hist').op = "mark_used" /\ Last(hist').status = "absent"
          /\ Last(hist').id = loc[Main].c.confirmation_id
          /\ dbFile' = dbFile /\ tmpFile' = tmpFile /\ auditFile' = auditFile]_vars

\* C21 witness: with one record in the map, mark_used for another id has
\* returned; the map holds that one record as it was put and the log its one
\* "proposed" line.
C21_Witness ==
    /\ AllIdle /\ Len(hist) = 2
    /\ hist[1].op = "put" /\ hist[1].status = "done"
    /\ hist[2].op = "mark_used" /\ hist[2].status = "absent"
    /\ hist[2].id # hist[1].id
    /\ DOMAIN Db = {hist[1].id} /\ Db[hist[1].id] = asdict(hist[1].rec)
    /\ Len(auditFile) = 1 /\ auditFile[1].action = "proposed"

====
